---- MODULE Spec2Model ----
(***************************************************************************)
(* TrtInferenceEngine (TRT_inference_engine.hpp / .cpp) and the TRT::YOLO  *)
(* wrapper built on it.  The TensorRT runtime and the CUDA runtime are the *)
(* environment: a serialized engine is a sequence of bindings, device      *)
(* memory is a map from handles to sizes, and every call the code makes on *)
(* them is recorded as an event of the operation that made it.             *)
(***************************************************************************)
EXTENDS Integers, Sequences, FiniteSets, TLC

\* ---------------------------------------------------------------- bounds
MaxBindings == 3
MaxBufs == 1
MaxCarry == 1

\* ------------------------------------------------------ program constants
ElemWidth == 4
MODEL_NUM_INPUTS == 1
MODEL_NUM_OUTPUTS == 4
MAX_DETECTIONS == 100

\* ------------------------------------------------------------ environment
SeqsUpTo(S, n) == UNION {[1..k -> S] : k \in 0..n}

\* nvinfer1::Dims: nbDims is the length, d[j] the entries.  The dimensions a
\* binding may report: none, a zero, a negative one after a positive one, and
\* two well-formed shapes of different rank and volume.
DimsSet == {<<>>, <<0>>, <<2, -1>>, <<1>>, <<1, 2>>}

\* One binding of a serialized engine, as getBindingDimensions and
\* bindingIsInput report it.
\* getBindingName gives a name, or a null pointer: the two bindings of
\* shape [1] also come without a name.
NoName == "nullptr"
Bindings ==
    [is_input : BOOLEAN, dims : DimsSet, name : {"tensor"}]
        \cup [is_input : BOOLEAN, dims : {<<1>>}, name : {NoName}]

\* The serialized engines a path can name.
Models == SeqsUpTo(Bindings, MaxBindings)

\* What load_engine finds at engine_path: an engine, or nothing it can read.
Unreadable == [readable |-> FALSE, bindings |-> <<>>]
Files == {[readable |-> TRUE, bindings |-> m] : m \in Models} \cup {Unreadable}

\* The values the two names read by infer_b's first test may have.
GateVecs == SeqsUpTo({ElemWidth}, 1)

\* The element widths a caller may pass to the byte-size getters.
Widths == {1, 2, ElemWidth}

\* Byte sizes a caller may declare: the width of one element, and that off
\* by one.
SizeVals == {ElemWidth, ElemWidth + 1}
SizeVecs == SeqsUpTo(SizeVals, MaxBufs)

NULL == 0

\* Host pointers a caller may pass: null, or a buffer.
HostPtrs == {NULL, 1}
PtrVecs == SeqsUpTo(HostPtrs, MaxBufs)

\* The output tensors of the detection model, as the accelerator leaves them.
\* Scores in hundredths: below zero, below 0.25, 0.25, above it.
Scores == {-50, 10, 25, 30, 90}

\* One detection of the model: corners x1, y1, x2, y2, score, label.
Dets ==
    {[box |-> <<1, 2, 4, 8>>, score |-> sc, label |-> 0] : sc \in Scores}
        \cup {[box |-> <<0, 0, 3, 5>>, score |-> 90, label |-> 7]}

\* The first three detections of the tensors, and the one every later slot
\* holds: one the threshold keeps or one below zero.
Prefixes == [1..3 -> Dets]
Fills == {d \in Dets : d.label = 0 /\ d.score \in {-50, 90}}

\* The detection in slot i (from 0) of the tensors.
DetAt(prefix, fill, i) == IF i < Len(prefix) THEN prefix[i + 1] ELSE fill

\* bboxes [1,100,4], scores [1,100] and labels [1,100], indexed from 0.
Tensors(prefix, fill) ==
    [bboxes |-> [k \in 0..(4 * MAX_DETECTIONS - 1) |->
                    DetAt(prefix, fill, k \div 4).box[(k % 4) + 1]],
     scores |-> [i \in 0..(MAX_DETECTIONS - 1) |-> DetAt(prefix, fill, i).score],
     labels |-> [i \in 0..(MAX_DETECTIONS - 1) |-> DetAt(prefix, fill, i).label]]

\* The values num_dets [1,1] may hold.
NumDets == {-1, 0, 1, 2, 3, MAX_DETECTIONS, MAX_DETECTIONS + 1}

\* The least device handle cudaMalloc can return: one that is not live.
NextFree(used) ==
    CHOOSE h \in 1..(Cardinality(used) + 1) :
        h \notin used /\ \A g \in 1..(h - 1) : g \in used

\* ------------------------------------------------------------------ state
VARIABLES
    trt,          \* the TrtInferenceEngine object (live = FALSE: no object)
    model,        \* the bindings of the engine file the object was built from
    dev_mem,      \* CUDA device memory: live handle -> byte size
    last,         \* the last operation: its arguments, CUDA/TensorRT calls, result
    initialized,  \* TRT::YOLO::initialized
    engine,       \* TRT::YOLO::engine != nullptr
    input_sizes,  \* TRT::YOLO::input_sizes
    output_sizes, \* TRT::YOLO::output_sizes
    input_data,   \* TRT::YOLO::input_data
    output_data,  \* TRT::YOLO::output_data
    host_mem,     \* live host chunks calloc returned
    ctor_alloc,   \* how the constructor's allocate_buffers call ended
    crashed,      \* the process has faulted
    results_detections  \* the caller's vector identify_objects appends to

vars == <<trt, model, dev_mem, last, initialized, engine, input_sizes,
          output_sizes, input_data, output_data, host_mem, ctor_alloc, crashed,
          results_detections>>

yolo_vars == <<initialized, engine, input_sizes, output_sizes, input_data,
               output_data, host_mem, results_detections>>

\* The members of a TrtInferenceEngine before its constructor body runs.
NoObject ==
    [live |-> FALSE,
     runtime_ |-> FALSE, engine_ |-> FALSE, context_ |-> FALSE,
     num_inputs_ |-> 0, num_outputs_ |-> 0,
     input_dims_ |-> <<>>, output_dims_ |-> <<>>,
     input_names_ |-> <<>>, output_names_ |-> <<>>,
     input_shapes_ |-> <<>>, output_shapes_ |-> <<>>,
     input_cuda_buffers_ |-> <<>>, output_cuda_buffers_ |-> <<>>,
     bindings_ |-> <<>>,
     trt_input_element_counts_ |-> <<>>, trt_output_element_counts_ |-> <<>>]

NoCall == [op |-> "none", args |-> <<>>, events |-> <<>>, ret |-> "none",
           note |-> "none"]

\* What a read past the end of a vector yields.
OutOfRange == "out_of_range"
At(vec, i) == IF i \in 1..Len(vec) THEN vec[i] ELSE OutOfRange

\* ------------------------------------------------- TrtInferenceEngine
\* load_engine: reads the file and creates runtime, engine and context.
load_engine(e) ==
    [e EXCEPT !.runtime_ = TRUE, !.engine_ = TRUE, !.context_ = TRUE]

RECURSIVE Product(_)
Product(s) == IF s = <<>> THEN 1 ELSE Head(s) * Product(Tail(s))

\* validate_and_calculate_elements: throws on no dimensions or on a
\* dimension <= 0, otherwise the product of the dimensions.
validate_and_calculate_elements(dims) ==
    [throws   |-> Len(dims) = 0 \/ \E j \in 1..Len(dims) : dims[j] <= 0,
     elements |-> Product(dims)]

\* ShapeOf with the copy loop stopping one dimension early (j < nbDims - 1).
ShapeOf_OneShort(dims) == [j \in 1..(Len(dims) - 1) |-> dims[j]]

\* The shape vector the binding loop builds from a Dims: shape.push_back(d[j])
\* for j < nbDims.
ShapeOf(dims) == [j \in 1..Len(dims) |-> dims[j]]

\* The binding loop of calculate_model_parameters: the input (want = TRUE) or
\* output bindings in binding order.
BindingsOfRole(m, want) == SelectSeq(m, LAMBDA b : b.is_input = want)

\* Binding b stops the binding loop: it has a dimension <= 0 (the loop
\* throws), or no name (std::string is constructed from a null pointer).
BadDimension(b) == \E j \in 1..Len(b.dims) : b.dims[j] <= 0
StopsLoop(b) == BadDimension(b) \/ b.name = NoName

\* calculate_model_parameters: clears the catalog, sets the counts from the
\* just-cleared vectors, then walks the bindings and computes element counts.
\* Constructing a std::string from a null name is undefined: it throws, or
\* the process faults (fault).
calculate_model_parameters(e, m, fault) ==
    LET cleared == [e EXCEPT !.input_dims_ = <<>>, !.output_dims_ = <<>>,
                             !.input_names_ = <<>>, !.output_names_ = <<>>,
                             !.trt_input_element_counts_ = <<>>,
                             !.trt_output_element_counts_ = <<>>]
        counted == [cleared EXCEPT
                       !.num_inputs_  = Len(cleared.input_dims_),
                       !.num_outputs_ = Len(cleared.output_dims_)]
        ins     == BindingsOfRole(m, TRUE)
        outs    == BindingsOfRole(m, FALSE)
        in_d    == [i \in 1..Len(ins)  |-> ins[i].dims]
        out_d   == [i \in 1..Len(outs) |-> outs[i].dims]
        stops   == {i \in 1..Len(m) : StopsLoop(m[i])}
        first   == CHOOSE i \in stops : \A k \in stops : i <= k
        dimThrow == stops # {} /\ BadDimension(m[first])
        nullName == stops # {} /\ ~BadDimension(m[first])
        elemThrow ==
            \/ \E i \in 1..Len(in_d)  : validate_and_calculate_elements(in_d[i]).throws
            \/ \E i \in 1..Len(out_d) : validate_and_calculate_elements(out_d[i]).throws
        walked == [counted EXCEPT
                      !.input_dims_  = in_d,
                      !.output_dims_ = out_d,
                      !.input_names_  = [i \in 1..Len(ins)  |-> ins[i].name],
                      !.output_names_ = [i \in 1..Len(outs) |-> outs[i].name],
                      !.input_shapes_  =
                          counted.input_shapes_ \o [i \in 1..Len(in_d) |-> ShapeOf(in_d[i])],
                      !.output_shapes_ =
                          counted.output_shapes_ \o [i \in 1..Len(out_d) |-> ShapeOf(out_d[i])],
                      !.trt_input_element_counts_ =
                          [i \in 1..Len(in_d) |-> validate_and_calculate_elements(in_d[i]).elements],
                      !.trt_output_element_counts_ =
                          [i \in 1..Len(out_d) |-> validate_and_calculate_elements(out_d[i]).elements]]
    IN  [throws |-> \/ ~e.engine_
                    \/ dimThrow
                    \/ nullName /\ ~fault
                    \/ stops = {} /\ elemThrow,
         faults |-> e.engine_ /\ nullName /\ fault,
         null_name |-> e.engine_ /\ nullName,
         obj |-> walked]

get_num_inputs(e) == e.num_inputs_
get_num_outputs(e) == e.num_outputs_
get_input_shapes(e) == e.input_shapes_
get_output_shapes(e) == e.output_shapes_
get_input_elements(e) == e.trt_input_element_counts_
get_output_elements(e) == e.trt_output_element_counts_

\* get_input_size_bytes / get_output_size_bytes: num_inputs_ (num_outputs_)
\* entries, entry i the element count times the element width.
get_input_size_bytes(e, element_size) ==
    [i \in 1..e.num_inputs_ |-> e.trt_input_element_counts_[i] * element_size]
get_output_size_bytes(e, element_size) ==
    [i \in 1..e.num_outputs_ |-> e.trt_output_element_counts_[i] * element_size]

\* The cudaFree loop of deallocate_buffers over one buffer list: a non-null
\* entry is freed, a null one is skipped.
RECURSIVE FreeLoop(_, _, _)
FreeLoop(bufs, mem, events) ==
    IF bufs = <<>> THEN [mem |-> mem, events |-> events]
    ELSE LET buf == Head(bufs) IN
         IF buf # NULL
         THEN FreeLoop(Tail(bufs),
                       [h \in DOMAIN mem \ {buf} |-> mem[h]],
                       Append(events, <<"cudaFree", buf, buf \in DOMAIN mem>>))
         ELSE FreeLoop(Tail(bufs), mem, events)

\* deallocate_buffers: frees the input buffers, then the output buffers, and
\* clears both lists and the binding table.
deallocate_buffers(e, mem, events) ==
    LET a == FreeLoop(e.input_cuda_buffers_, mem, events)
        b == FreeLoop(e.output_cuda_buffers_, a.mem, a.events)
    IN  [obj |-> [e EXCEPT !.input_cuda_buffers_ = <<>>,
                           !.output_cuda_buffers_ = <<>>,
                           !.bindings_ = <<>>],
         mem |-> b.mem, events |-> b.events]

\* One cudaMalloc loop of allocate_buffers over bufs (already resized to n
\* null entries), from index i.  calls counts the cudaMalloc calls of this
\* allocate_buffers so far; the call numbered failAt fails.
RECURSIVE MallocLoop(_, _, _, _, _, _, _)
MallocLoop(bufs, sizes, i, mem, events, calls, failAt) ==
    IF i > Len(bufs)
    THEN [ok |-> TRUE, bufs |-> bufs, mem |-> mem, events |-> events, calls |-> calls]
    ELSE IF calls + 1 = failAt
    THEN [ok |-> FALSE, bufs |-> bufs, mem |-> mem,
          events |-> Append(events, <<"cudaMalloc", NULL, sizes[i]>>),
          calls |-> calls + 1]
    ELSE LET h == NextFree(DOMAIN mem) IN
         MallocLoop([bufs EXCEPT ![i] = h], sizes, i + 1,
                    [g \in DOMAIN mem \cup {h} |-> IF g = h THEN sizes[i] ELSE mem[g]],
                    Append(events, <<"cudaMalloc", h, sizes[i]>>),
                    calls + 1, failAt)

\* allocate_buffers.  status: "already" (buffers exist), "counts" (fewer than
\* one input or output), "malloc" (a cudaMalloc failed, rolled back), "ok".
allocate_buffers(e, mem, failAt) ==
    IF e.input_cuda_buffers_ # <<>> \/ e.output_cuda_buffers_ # <<>>
    THEN [obj |-> e, mem |-> mem, events |-> <<>>, status |-> "already"]
    ELSE IF e.num_inputs_ < 1 \/ e.num_outputs_ < 1
    THEN [obj |-> e, mem |-> mem, events |-> <<>>, status |-> "counts"]
    ELSE
    LET in_sizes  == get_input_size_bytes(e, ElemWidth)
        out_sizes == get_output_size_bytes(e, ElemWidth)
        a  == MallocLoop([i \in 1..e.num_inputs_ |-> NULL], in_sizes, 1,
                         mem, <<>>, 0, failAt)
        e1 == [e EXCEPT !.input_cuda_buffers_ = a.bufs]
    IN  IF ~a.ok
        THEN deallocate_buffers(e1, a.mem, a.events) @@ [status |-> "malloc"]
        ELSE
        LET b  == MallocLoop([i \in 1..e.num_outputs_ |-> NULL], out_sizes, 1,
                             a.mem, a.events, a.calls, failAt)
            e2 == [e1 EXCEPT !.output_cuda_buffers_ = b.bufs]
        IN  IF ~b.ok
            THEN deallocate_buffers(e2, b.mem, b.events) @@ [status |-> "malloc"]
            ELSE [obj |-> [e2 EXCEPT !.bindings_ =
                               e2.input_cuda_buffers_ \o e2.output_cuda_buffers_],
                  mem |-> b.mem, events |-> b.events, status |-> "ok"]

\* shutdown_engine releasing the engine before the execution context.
shutdown_engine_EngineFirst(e, events) ==
    [obj |-> [e EXCEPT !.context_ = FALSE, !.engine_ = FALSE, !.runtime_ = FALSE],
     events |-> events \o << <<"reset", "engine_">>, <<"reset", "context_">>,
                             <<"reset", "runtime_">> >>]

\* shutdown_engine: releases context, engine and runtime, in that order.
shutdown_engine(e, events) ==
    [obj |-> [e EXCEPT !.context_ = FALSE, !.engine_ = FALSE, !.runtime_ = FALSE],
     events |-> events \o << <<"reset", "context_">>, <<"reset", "engine_">>,
                             <<"reset", "runtime_">> >>]

\* The constructor: load_engine, calculate_model_parameters, allocate_buffers.
\* threw: load_engine (nothing readable at the path) or
\* calculate_model_parameters threw and no object exists.  faulted: the
\* process faulted in calculate_model_parameters.
Constructor(file, failAt, mem, fault) ==
    IF ~file.readable
    THEN [threw |-> TRUE, faulted |-> FALSE, step |-> "load_engine",
          obj |-> NoObject, mem |-> mem, events |-> <<>>, alloc |-> "none"]
    ELSE
    LET loaded == load_engine(NoObject)
        cat    == calculate_model_parameters(loaded, file.bindings, fault)
    IN  IF cat.throws \/ cat.faults
        THEN [threw |-> cat.throws, faulted |-> cat.faults,
              step |-> IF cat.null_name THEN "std::string from a null name"
                       ELSE "calculate_model_parameters",
              obj |-> NoObject, mem |-> mem, events |-> <<>>, alloc |-> "none"]
        ELSE
        LET al == allocate_buffers(cat.obj, mem, failAt)
        IN  [threw |-> FALSE, faulted |-> FALSE, step |-> "done",
             obj |-> [al.obj EXCEPT !.live = TRUE],
             mem |-> al.mem, events |-> al.events, alloc |-> al.status]

\* The destructor: deallocate_buffers, then shutdown_engine.
Destructor(e, mem) ==
    LET d == deallocate_buffers(e, mem, <<>>)
        s == shutdown_engine(d.obj, d.events)
    IN  [mem |-> d.mem, events |-> s.events]

\* The host-to-device loop of infer_b: one cudaMemcpy per device input
\* buffer; its result is not looked at.  The copy numbered failCopy fails.
H2DEvents(e, input_buf, size_in_param, failCopy) ==
    [i \in 1..Len(e.input_cuda_buffers_) |->
        <<"cudaMemcpyHostToDevice", e.input_cuda_buffers_[i], At(input_buf, i),
          At(size_in_param, i), i # failCopy>>]

\* The device-to-host loop of infer_b.
D2HEvents(e, output_buf, size_out_param) ==
    [i \in 1..Len(e.output_cuda_buffers_) |->
        <<"cudaMemcpyDeviceToHost", At(output_buf, i), e.output_cuda_buffers_[i],
          At(size_out_param, i), TRUE>>]

\* infer_b without the test on the number of host buffers.
infer_b_NoCountTest(e, input_buf, size_in_param, output_buf, size_out_param, input_size, output_size, failCopy) ==
    IF \/ input_size # get_input_size_bytes(e, ElemWidth)
       \/ output_size # get_output_size_bytes(e, ElemWidth)
    THEN [ret |-> FALSE, events |-> <<>>, note |-> "size mismatch"]
    ELSE [ret |-> TRUE,
          events |-> H2DEvents(e, input_buf, size_in_param, failCopy)
                     \o << <<"executeV2", e.bindings_>> >>
                     \o D2HEvents(e, output_buf, size_out_param),
          note |-> "ran"]

\* infer_b.  input_size and output_size are the two names its first test
\* reads: they are no parameter and no member, so their values are not tied
\* to the caller's size vectors.
infer_b(e, input_buf, size_in_param, output_buf, size_out_param, input_size, output_size, failCopy) ==
    IF \/ input_size # get_input_size_bytes(e, ElemWidth)
       \/ output_size # get_output_size_bytes(e, ElemWidth)
    THEN [ret |-> FALSE, events |-> <<>>, note |-> "size mismatch"]
    ELSE IF \/ Len(input_buf) # Len(e.input_cuda_buffers_)
            \/ Len(output_buf) # Len(e.output_cuda_buffers_)
    THEN [ret |-> FALSE, events |-> <<>>, note |-> "count mismatch"]
    ELSE [ret |-> TRUE,
          events |-> H2DEvents(e, input_buf, size_in_param, failCopy)
                     \o << <<"executeV2", e.bindings_>> >>
                     \o D2HEvents(e, output_buf, size_out_param),
          note |-> "ran"]

\* infer_async with a true result.
infer_async_True(e, input_buf, size_in_param) ==
    [ret |-> TRUE, events |-> <<>>, obj |-> e]

\* infer_async allocating a device input buffer of its own on each call.
infer_async_Allocates(e, input_buf, size_in_param) ==
    [ret |-> FALSE, events |-> <<>>,
     obj |-> [e EXCEPT !.input_cuda_buffers_ = Append(@, 1)]]

\* infer_async: not implemented, returns false.
infer_async(e, input_buf, size_in_param) ==
    [ret |-> FALSE, events |-> <<>>, obj |-> e]

\* The conversion of a bool to size_t.
SizeOfBool(b) == IF b THEN 1 ELSE 0

\* retrieve_infer_result_async: not implemented, returns false as a size_t.
retrieve_infer_result_async(e, output_buf, size_out_param) ==
    [ret |-> SizeOfBool(FALSE), events |-> <<>>, obj |-> e]

\* ------------------------------------------------------------ TRT::YOLO
\* The calloc loop of load_model: n chunks, chunk i sized sizes[i]; a size
\* read past the end of sizes is anything, and calloc of it may return null
\* (nullOnGarbage).
RECURSIVE CallocLoop(_, _, _, _, _, _)
CallocLoop(n, sizes, i, data, heap, nullOnGarbage) ==
    IF i > n THEN [data |-> data, heap |-> heap]
    ELSE IF At(sizes, i) = OutOfRange /\ nullOnGarbage
    THEN CallocLoop(n, sizes, i + 1, Append(data, NULL), heap, nullOnGarbage)
    ELSE LET chunk == NextFree(heap) IN
         CallocLoop(n, sizes, i + 1, Append(data, chunk), heap \cup {chunk},
                    nullOnGarbage)

\* A float is modelled by its value in hundredths (0.25f is 25).  The
\* conversion of a float to int drops the fraction, towards zero; the
\* conversion of an int to float is exact.
FloatToInt(h) == IF h >= 0 THEN h \div 100 ELSE -((-h) \div 100)
IntToFloat(n) == n * 100

\* constexpr int CONFIDENCE_SCORE_THRESHOLD = 0.25f: the float literal,
\* converted to the int it initializes.
CONFIDENCE_SCORE_THRESHOLD == FloatToInt(25)

\* One detected_object_info_t, from the four corners, score and label of a
\* detection.
current_obj(x1, y1, x2, y2, score, label) ==
    [rect |-> [x |-> x1, y |-> y1, width |-> x2 - x1, height |-> y2 - y1],
     confidence |-> score, class_id |-> label]

\* The detection slots the loop visits from slot i: i, i + 1, ... up to
\* num_dets - 1.
Slots(i, num_dets) ==
    [j \in 1..(IF num_dets > i THEN num_dets - i ELSE 0) |-> i + j - 1]

\* The detection loop with the rejection test inverted (score > threshold
\* skips).
DecodeLoop_Inverted(i, num_dets, bboxes, scores, labels, results) ==
    LET kept == SelectSeq(Slots(i, num_dets),
                    LAMBDA d : ~(scores[d] > IntToFloat(CONFIDENCE_SCORE_THRESHOLD)))
    IN  results \o
        [k \in 1..Len(kept) |->
            current_obj(bboxes[kept[k] * 4 + 0], bboxes[kept[k] * 4 + 1],
                        bboxes[kept[k] * 4 + 2], bboxes[kept[k] * 4 + 3],
                        scores[kept[k]], labels[kept[k]])]

\* The detection loop with the corners stored as they come (width = x2,
\* height = y2).
DecodeLoop_Corners(i, num_dets, bboxes, scores, labels, results) ==
    LET kept == SelectSeq(Slots(i, num_dets),
                    LAMBDA d : ~(scores[d] < IntToFloat(CONFIDENCE_SCORE_THRESHOLD)))
    IN  results \o
        [k \in 1..Len(kept) |->
            [rect |-> [x |-> bboxes[kept[k] * 4 + 0], y |-> bboxes[kept[k] * 4 + 1],
                       width |-> bboxes[kept[k] * 4 + 2],
                       height |-> bboxes[kept[k] * 4 + 3]],
             confidence |-> scores[kept[k]], class_id |-> labels[kept[k]]]]

\* The detection loop of identify_objects, from slot i: a detection whose
\* score is below the threshold is skipped (continue), every other one is
\* appended to results, in slot order.
DecodeLoop(i, num_dets, bboxes, scores, labels, results) ==
    LET kept == SelectSeq(Slots(i, num_dets),
                    LAMBDA d : ~(scores[d] < IntToFloat(CONFIDENCE_SCORE_THRESHOLD)))
    IN  results \o
        [k \in 1..Len(kept) |->
            current_obj(bboxes[kept[k] * 4 + 0], bboxes[kept[k] * 4 + 1],
                        bboxes[kept[k] * 4 + 2], bboxes[kept[k] * 4 + 3],
                        scores[kept[k]], labels[kept[k]])]

\* The post-processing with only the upper test on num_dets.
decode_detections_NoLowerTest(num_dets, bboxes, scores, labels, results) ==
    IF num_dets > MAX_DETECTIONS
    THEN [ret |-> -1, results |-> results]
    ELSE [ret |-> 0,
          results |-> DecodeLoop(0, num_dets, bboxes, scores, labels, results)]

\* The post-processing of identify_objects on the four output tensors.
\* results_buffer is cleared first and is what the returned size is taken
\* of; the loop appends to results, never to results_buffer.
decode_detections(num_dets, bboxes, scores, labels, results) ==
    LET results_buffer == <<>> IN
    IF num_dets < 0 \/ num_dets > MAX_DETECTIONS
    THEN [ret |-> -1, results |-> results]
    ELSE [ret |-> Len(results_buffer),
          results |-> DecodeLoop(0, num_dets, bboxes, scores, labels, results)]

\* identify_objects on an image of input_img_size floats.  out is what the
\* output buffers hold once infer_b has returned; results is the caller's
\* vector.
identify_objects(e, input_img_size, out, input_size, output_size, failCopy, results) ==
    IF ~initialized \/ ~engine
    THEN [ret |-> -1, results |-> results, events |-> <<>>,
          note |-> "not initialized"]
    ELSE IF \/ get_num_inputs(e) # MODEL_NUM_INPUTS
            \/ get_num_outputs(e) # MODEL_NUM_OUTPUTS
    THEN [ret |-> -1, results |-> results, events |-> <<>>,
          note |-> "unexpected I/O count"]
    ELSE IF input_sizes[1] # input_img_size * ElemWidth
    THEN [ret |-> -1, results |-> results, events |-> <<>>,
          note |-> "input sizes do not match"]
    ELSE LET r == infer_b(e, input_data, input_sizes, output_data, output_sizes,
                          input_size, output_size, failCopy) IN
         IF ~r.ret
         THEN [ret |-> -1, results |-> results, events |-> r.events,
               note |-> "inference failed"]
         ELSE LET d == decode_detections(out.num_dets, out.bboxes, out.scores,
                                         out.labels, results) IN
              [ret |-> d.ret, results |-> d.results, events |-> r.events,
               note |-> "decoded"]

\* One free loop of unload_model: free(data[i]) for the first n entries, from
\* entry i.  free of null does nothing; an entry read past the end of data is
\* anything: the process faults on it (fault), or free returns and the heap is
\* as before.
RECURSIVE HostFreeLoop(_, _, _, _, _, _)
HostFreeLoop(data, n, i, heap, events, fault) ==
    IF i > n THEN [heap |-> heap, events |-> events, faulted |-> FALSE]
    ELSE IF i \notin 1..Len(data)
    THEN IF fault
         THEN [heap |-> heap, events |-> Append(events, <<"free", OutOfRange, FALSE>>),
               faulted |-> TRUE]
         ELSE HostFreeLoop(data, n, i + 1, heap,
                           Append(events, <<"free", OutOfRange, FALSE>>), fault)
    ELSE HostFreeLoop(data, n, i + 1, heap \ {data[i]},
                      Append(events, <<"free", data[i],
                                       data[i] = NULL \/ data[i] \in heap>>),
                      fault)

\* TRT::YOLO::unload_model.  ret is "void", or "fault" when the process
\* faults.
unload_model(fault) ==
    LET d == IF engine THEN Destructor(trt, dev_mem)
             ELSE [mem |-> dev_mem, events |-> <<>>]
        a == HostFreeLoop(input_data, MODEL_NUM_INPUTS, 1, host_mem, d.events, fault)
        b == IF a.faulted THEN a
             ELSE HostFreeLoop(output_data, MODEL_NUM_OUTPUTS, 1, a.heap, a.events, fault)
        past == MODEL_NUM_INPUTS > Len(input_data) \/ MODEL_NUM_OUTPUTS > Len(output_data)
    IN  /\ trt' = IF engine THEN NoObject ELSE trt
        /\ model' = IF engine THEN <<>> ELSE model
        /\ ctor_alloc' = IF engine THEN "none" ELSE ctor_alloc
        /\ dev_mem' = d.mem
        /\ engine' = FALSE
        /\ host_mem' = b.heap
        /\ last' = [op |-> "unload_model", args |-> <<initialized \/ engine, engine>>,
                    events |-> b.events,
                    ret |-> IF b.faulted THEN "fault" ELSE "void",
                    note |-> IF past THEN "read past the end of a data vector"
                             ELSE "none"]
        /\ crashed' = b.faulted
        /\ IF b.faulted
           THEN UNCHANGED <<input_data, output_data, input_sizes, output_sizes,
                            initialized>>
           ELSE /\ input_data' = <<>>
                /\ output_data' = <<>>
                /\ input_sizes' = <<>>
                /\ output_sizes' = <<>>
                /\ initialized' = FALSE
        /\ UNCHANGED results_detections

\* ---------------------------------------------------------------- actions
Init ==
    /\ trt = NoObject
    /\ model = <<>>
    /\ dev_mem = <<>>
    /\ last = NoCall
    /\ initialized = FALSE
    /\ engine = FALSE
    /\ input_sizes = <<>>
    /\ output_sizes = <<>>
    /\ input_data = <<>>
    /\ output_data = <<>>
    /\ host_mem = {}
    /\ ctor_alloc = "none"
    /\ crashed = FALSE
    /\ results_detections = <<>>

\* No call is in progress and the process runs: the caller may make one.
Idle == ~crashed /\ last.op = "none"

\* The caller has read the result of its last call.
Return ==
    /\ ~crashed /\ last.op # "none"
    /\ last' = NoCall
    /\ UNCHANGED <<trt, model, dev_mem, ctor_alloc, yolo_vars, crashed>>

\* The cudaMalloc calls a constructor on a file can fail at: none (0), or one
\* of as many calls as the file has bindings.
FailPoints(file) == 0..Len(file.bindings)

\* Some binding of the file has no name.
HasNullName(file) == \E i \in 1..Len(file.bindings) : file.bindings[i].name = NoName

\* The outcomes of the undefined behaviour a constructor on file may run
\* into: it faults the process, or not.
Faults(file) == IF HasNullName(file) THEN BOOLEAN ELSE {FALSE}

\* A client of the class builds a TrtInferenceEngine from an engine file.
Construct ==
    /\ Idle /\ ~trt.live /\ ~engine
    /\ \E file \in Files : \E failAt \in FailPoints(file) : \E fault \in Faults(file) :
         \E c \in {Constructor(file, failAt, dev_mem, fault)} :
         /\ trt' = c.obj
         /\ model' = IF c.threw \/ c.faulted THEN <<>> ELSE file.bindings
         /\ dev_mem' = c.mem
         /\ ctor_alloc' = c.alloc
         /\ crashed' = c.faulted
         /\ last' = [op |-> "TrtInferenceEngine", args |-> <<file>>,
                     events |-> c.events,
                     ret |-> IF c.faulted THEN "fault"
                             ELSE IF c.threw THEN "threw" ELSE "built",
                     note |-> c.step]
    /\ UNCHANGED yolo_vars

\* A client of the class runs infer_b on its engine.
InferB ==
    /\ Idle /\ trt.live /\ ~engine
    /\ \E input_buf \in PtrVecs, output_buf \in PtrVecs,
          size_in_param \in SizeVecs, size_out_param \in SizeVecs,
          input_size \in GateVecs, output_size \in GateVecs,
          failCopy \in 0..Len(trt.input_cuda_buffers_) :
         LET r == infer_b(trt, input_buf, size_in_param, output_buf,
                          size_out_param, input_size, output_size, failCopy) IN
         last' = [op |-> "infer_b",
                  args |-> <<input_buf, size_in_param, output_buf, size_out_param>>,
                  events |-> r.events, ret |-> r.ret, note |-> r.note]
    /\ UNCHANGED <<trt, model, dev_mem, ctor_alloc, yolo_vars, crashed>>

\* A client of the class destroys its engine.
Destroy ==
    /\ Idle /\ trt.live /\ ~engine
    /\ LET d == Destructor(trt, dev_mem) IN
         /\ dev_mem' = d.mem
         /\ last' = [op |-> "~TrtInferenceEngine", args |-> <<>>,
                     events |-> d.events, ret |-> "void", note |-> "none"]
    /\ trt' = NoObject
    /\ model' = <<>>
    /\ ctor_alloc' = "none"
    /\ UNCHANGED <<yolo_vars, crashed>>

\* load_model without the test for a model already loaded.
load_model_NoGuard(file, failAt, fault, nullOnGarbage) ==
    \E c \in {Constructor(file, failAt, dev_mem, fault)} :
    IF c.threw
    THEN /\ last' = [op |-> "load_model", args |-> <<file>>, events |-> c.events,
                     ret |-> "threw", note |-> c.step]
         /\ UNCHANGED <<trt, model, dev_mem, ctor_alloc, yolo_vars, crashed>>
    ELSE IF c.faulted
    THEN /\ last' = [op |-> "load_model", args |-> <<file>>, events |-> c.events,
                     ret |-> "fault", note |-> c.step]
         /\ crashed' = TRUE
         /\ UNCHANGED <<trt, model, dev_mem, ctor_alloc, yolo_vars>>
    ELSE
    LET in_sz  == get_input_size_bytes(c.obj, ElemWidth)
        out_sz == get_output_size_bytes(c.obj, ElemWidth)
        past   == MODEL_NUM_INPUTS > Len(in_sz) \/ MODEL_NUM_OUTPUTS > Len(out_sz)
        a == CallocLoop(MODEL_NUM_INPUTS, in_sz, 1, input_data, host_mem,
                        nullOnGarbage)
        b == CallocLoop(MODEL_NUM_OUTPUTS, out_sz, 1, output_data, a.heap,
                        nullOnGarbage)
    IN  /\ trt' = c.obj
        /\ model' = file.bindings
        /\ dev_mem' = c.mem
        /\ ctor_alloc' = c.alloc
        /\ engine' = TRUE
        /\ input_sizes' = in_sz
        /\ output_sizes' = out_sz
        /\ IF past /\ fault
           THEN /\ crashed' = TRUE
                /\ last' = [op |-> "load_model", args |-> <<file>>,
                            events |-> c.events, ret |-> "fault",
                            note |-> "read past the end of a size vector"]
                /\ UNCHANGED <<initialized, input_data, output_data, host_mem,
                               results_detections>>
           ELSE /\ input_data' = a.data
                /\ output_data' = b.data
                /\ host_mem' = b.heap
                /\ initialized' = TRUE
                /\ last' = [op |-> "load_model", args |-> <<file>>,
                            events |-> c.events, ret |-> "0",
                            note |-> IF past
                                     THEN "read past the end of a size vector"
                                     ELSE "none"]
                /\ UNCHANGED <<crashed, results_detections>>

\* TRT::YOLO::load_model on a file; ret is "0" or "-1", "threw" when the
\* constructor's exception leaves it, "fault" when the process faults.
\* fault: the outcome of the undefined behaviour the call runs into (a
\* std::string from a null name in the constructor, or input_sizes[i] or
\* output_sizes[i] read past the end of the vector), when that happens.
load_model(file, failAt, fault, nullOnGarbage) ==
    IF initialized \/ engine
    THEN /\ last' = [op |-> "load_model", args |-> <<file>>, events |-> <<>>,
                     ret |-> "-1", note |-> "already initialized"]
         /\ UNCHANGED <<trt, model, dev_mem, ctor_alloc, yolo_vars, crashed>>
    ELSE
    \E c \in {Constructor(file, failAt, dev_mem, fault)} :
    IF c.threw
    THEN /\ last' = [op |-> "load_model", args |-> <<file>>, events |-> c.events,
                     ret |-> "threw", note |-> c.step]
         /\ UNCHANGED <<trt, model, dev_mem, ctor_alloc, yolo_vars, crashed>>
    ELSE IF c.faulted
    THEN /\ last' = [op |-> "load_model", args |-> <<file>>, events |-> c.events,
                     ret |-> "fault", note |-> c.step]
         /\ crashed' = TRUE
         /\ UNCHANGED <<trt, model, dev_mem, ctor_alloc, yolo_vars>>
    ELSE
    LET in_sz  == get_input_size_bytes(c.obj, ElemWidth)
        out_sz == get_output_size_bytes(c.obj, ElemWidth)
        past   == MODEL_NUM_INPUTS > Len(in_sz) \/ MODEL_NUM_OUTPUTS > Len(out_sz)
        a == CallocLoop(MODEL_NUM_INPUTS, in_sz, 1, input_data, host_mem,
                        nullOnGarbage)
        b == CallocLoop(MODEL_NUM_OUTPUTS, out_sz, 1, output_data, a.heap,
                        nullOnGarbage)
    IN  /\ trt' = c.obj
        /\ model' = file.bindings
        /\ dev_mem' = c.mem
        /\ ctor_alloc' = c.alloc
        /\ engine' = TRUE
        /\ input_sizes' = in_sz
        /\ output_sizes' = out_sz
        /\ IF past /\ fault
           THEN /\ crashed' = TRUE
                /\ last' = [op |-> "load_model", args |-> <<file>>,
                            events |-> c.events, ret |-> "fault",
                            note |-> "read past the end of a size vector"]
                /\ UNCHANGED <<initialized, input_data, output_data, host_mem,
                               results_detections>>
           ELSE /\ input_data' = a.data
                /\ output_data' = b.data
                /\ host_mem' = b.heap
                /\ initialized' = TRUE
                /\ last' = [op |-> "load_model", args |-> <<file>>,
                            events |-> c.events, ret |-> "0",
                            note |-> IF past
                                     THEN "read past the end of a size vector"
                                     ELSE "none"]
                /\ UNCHANGED <<crashed, results_detections>>

\* The program calls TRT::YOLO::load_model.
LoadModel ==
    /\ Idle
    /\ ~trt.live \/ engine
    /\ IF initialized \/ engine
       THEN load_model(Unreadable, 0, FALSE, FALSE)
       ELSE \E file \in Files : \E failAt \in FailPoints(file) :
                \E fault \in BOOLEAN : \E nullOnGarbage \in {FALSE, ~fault} :
                    load_model(file, failAt, fault, nullOnGarbage)

\* identify_objects returns before it reads its image or runs the engine.
ReturnsEarly ==
    \/ ~initialized \/ ~engine
    \/ get_num_inputs(trt) # MODEL_NUM_INPUTS
    \/ get_num_outputs(trt) # MODEL_NUM_OUTPUTS

\* The program calls TRT::YOLO::identify_objects on an image of one or two
\* floats.
IdentifyObjects ==
    /\ Idle
    /\ \E input_img_size \in IF ReturnsEarly THEN {1} ELSE {1, 2},
          num_dets \in IF ReturnsEarly THEN {0} ELSE NumDets,
          prefix \in IF ReturnsEarly THEN {[i \in 1..3 |-> CHOOSE d \in Fills : TRUE]}
                     ELSE Prefixes,
          fill \in IF ReturnsEarly THEN {CHOOSE d \in Fills : TRUE} ELSE Fills,
          input_size \in IF ReturnsEarly THEN {<<>>} ELSE GateVecs,
          output_size \in IF ReturnsEarly THEN {<<>>} ELSE GateVecs,
          failCopy \in 0..Len(trt.input_cuda_buffers_) :
         LET t == Tensors(prefix, fill)
             r == identify_objects(trt, input_img_size,
                      [num_dets |-> num_dets, bboxes |-> t.bboxes,
                       scores |-> t.scores, labels |-> t.labels],
                      input_size, output_size, failCopy, results_detections)
         IN  /\ results_detections' = r.results
             /\ last' = [op |-> "identify_objects", args |-> <<input_img_size>>,
                         events |-> r.events, ret |-> r.ret, note |-> r.note]
    /\ UNCHANGED <<trt, model, dev_mem, ctor_alloc, initialized, engine,
                   input_sizes, output_sizes, input_data, output_data, host_mem,
                   crashed>>

\* The program calls TRT::YOLO::unload_model.
UnloadModel ==
    /\ Idle
    /\ \E fault \in IF MODEL_NUM_INPUTS > Len(input_data) \/ MODEL_NUM_OUTPUTS > Len(output_data)
                    THEN BOOLEAN ELSE {FALSE} :
         unload_model(fault)

\* A client of the class calls infer_async on its engine.
InferAsync ==
    /\ Idle /\ trt.live /\ ~engine
    /\ \E input_buf \in PtrVecs, size_in_param \in SizeVecs :
         LET r == infer_async(trt, input_buf, size_in_param) IN
         /\ trt' = r.obj
         /\ last' = [op |-> "infer_async", args |-> <<input_buf, size_in_param>>,
                     events |-> r.events, ret |-> r.ret, note |-> "none"]
    /\ UNCHANGED <<model, dev_mem, ctor_alloc, yolo_vars, crashed>>

\* A client of the class calls retrieve_infer_result_async on its engine.
RetrieveInferResultAsync ==
    /\ Idle /\ trt.live /\ ~engine
    /\ \E output_buf \in PtrVecs, size_out_param \in SizeVecs :
         LET r == retrieve_infer_result_async(trt, output_buf, size_out_param) IN
         /\ trt' = r.obj
         /\ last' = [op |-> "retrieve_infer_result_async",
                     args |-> <<output_buf, size_out_param>>,
                     events |-> r.events, ret |-> r.ret, note |-> "none"]
    /\ UNCHANGED <<model, dev_mem, ctor_alloc, yolo_vars, crashed>>

\* A client of the class reads the getters of its engine, the byte sizes for
\* element width w.
Introspect ==
    /\ Idle /\ trt.live /\ ~engine
    /\ \E w \in Widths :
         last' = [op |-> "get", args |-> <<w>>, events |-> <<>>,
                  ret |-> <<get_num_inputs(trt), get_num_outputs(trt),
                            get_input_shapes(trt), get_output_shapes(trt),
                            get_input_elements(trt), get_output_elements(trt),
                            get_input_size_bytes(trt, w),
                            get_output_size_bytes(trt, w)>>,
                  note |-> "none"]
    /\ UNCHANGED <<trt, model, dev_mem, ctor_alloc, yolo_vars, crashed>>

Next ==
    \/ Construct
    \/ InferB
    \/ Destroy
    \/ LoadModel
    \/ IdentifyObjects
    \/ UnloadModel
    \/ InferAsync
    \/ RetrieveInferResultAsync
    \/ Introspect
    \/ Return

Spec == Init /\ [][Next]_vars

\* ------------------------------------------------- the decoder on its own
\* The post-processing of identify_objects applied to output tensors drawn
\* from Tensors and NumDets, on the caller's vector as the calls before left
\* it (of at most MaxCarry records).
Decode ==
    /\ Idle /\ Len(results_detections) <= MaxCarry
    /\ \E num_dets \in NumDets, prefix \in Prefixes, fill \in Fills :
         LET t == Tensors(prefix, fill)
             d == decode_detections(num_dets, t.bboxes, t.scores, t.labels,
                                    results_detections)
         IN  /\ results_detections' = d.results
             /\ last' = [op |-> "decode",
                         args |-> <<num_dets, prefix, fill, results_detections>>,
                         events |-> <<>>, ret |-> d.ret, note |-> "none"]
    /\ UNCHANGED <<trt, model, dev_mem, ctor_alloc, initialized, engine,
                   input_sizes, output_sizes, input_data, output_data, host_mem,
                   crashed>>

\* The caller empties its vector between two calls.
ClearResults ==
    /\ Idle /\ results_detections # <<>>
    /\ results_detections' = <<>>
    /\ UNCHANGED <<trt, model, dev_mem, last, ctor_alloc, initialized, engine,
                   input_sizes, output_sizes, input_data, output_data, host_mem,
                   crashed>>

NextDecode ==
    \/ Decode
    \/ ClearResults
    \/ Return

SpecDecode == Init /\ [][NextDecode]_vars

\* ----------------------------------------------------------------- claims
\* The input and the output bindings of the engine file, in binding order.
ModelInputs == BindingsOfRole(model, TRUE)
ModelOutputs == BindingsOfRole(model, FALSE)
NumIn == Len(ModelInputs)
NumOut == Len(ModelOutputs)

\* The calls of one kind among the events of the last operation.
EventsOf(kind) == {k \in 1..Len(last.events) : last.events[k][1] = kind}

\* The arguments of the last infer_b call.
ArgInputBuf == last.args[1]
ArgSizeIn == last.args[2]
ArgOutputBuf == last.args[3]
ArgSizeOut == last.args[4]

\* The last operation built an engine object: the constructor returned.
JustBuilt ==
    /\ trt.live
    /\ \/ last.op = "TrtInferenceEngine" /\ last.ret = "built"
       \/ last.op = "load_model" /\ last.ret \in {"0", "fault"}

\* C1: after construction on a valid model with N >= 1 input and M >= 1 output
\* bindings in which no cudaMalloc failed, there are N input and M output
\* device buffers, buffer i is allocated with element-count[i] x 4 bytes, and
\* the binding table holds N + M handles.
C1_BuffersAllocated ==
    (trt.live /\ NumIn >= 1 /\ NumOut >= 1 /\ ctor_alloc # "malloc") =>
        /\ Len(trt.input_cuda_buffers_) = NumIn
        /\ Len(trt.output_cuda_buffers_) = NumOut
        /\ \A i \in 1..Len(trt.input_cuda_buffers_) :
               /\ trt.input_cuda_buffers_[i] \in DOMAIN dev_mem
               /\ dev_mem[trt.input_cuda_buffers_[i]] =
                      Product(ModelInputs[i].dims) * 4
        /\ \A i \in 1..Len(trt.output_cuda_buffers_) :
               /\ trt.output_cuda_buffers_[i] \in DOMAIN dev_mem
               /\ dev_mem[trt.output_cuda_buffers_[i]] =
                      Product(ModelOutputs[i].dims) * 4
        /\ Len(trt.bindings_) = NumIn + NumOut

\* C2: when a construction step failed (here: allocate_buffers returned early
\* on an error) no usable session results: load_model has not returned 0,
\* initialized is not set, and no infer_b on that engine reaches a
\* host-to-device copy or executeV2.
C2_NoUsableSession ==
    (trt.live /\ ctor_alloc \in {"already", "counts", "malloc"}) =>
        /\ ~initialized
        /\ ~(last.op = "load_model" /\ last.ret = "0")
        /\ last.op = "infer_b" =>
               /\ EventsOf("cudaMemcpyHostToDevice") = {}
               /\ EventsOf("executeV2") = {}

\* The byte size the engine computes for input (output) binding i: its
\* element count times the element width.
ExpectedInSize(i) == trt.trt_input_element_counts_[i] * ElemWidth
ExpectedOutSize(i) == trt.trt_output_element_counts_[i] * ElemWidth

\* Some declared size of the last infer_b call differs from the engine's size
\* for that binding.
DeclaredSizeDiffers ==
    \/ \E i \in 1..Len(ArgSizeIn) :
           i <= Len(trt.trt_input_element_counts_) /\ ArgSizeIn[i] # ExpectedInSize(i)
    \/ \E i \in 1..Len(ArgSizeOut) :
           i <= Len(trt.trt_output_element_counts_) /\ ArgSizeOut[i] # ExpectedOutSize(i)

\* C3: on an engine built from a model with at least one input and one output,
\* an infer_b call in which the declared byte size of some input or output
\* buffer differs from the engine's size for that binding returns false and
\* performs no cudaMemcpy and no executeV2.
C3_SizeGate ==
    (last.op = "infer_b" /\ NumIn >= 1 /\ NumOut >= 1 /\ DeclaredSizeDiffers) =>
        last.ret = FALSE /\ last.events = <<>>

\* C4: on an engine built from a model with at least one input and one output,
\* an infer_b call given a number of host input buffers other than the model's
\* number of inputs, or of host output buffers other than the model's number
\* of outputs, returns false and performs no cudaMemcpy and no executeV2.
C4_CountGate ==
    (last.op = "infer_b" /\ NumIn >= 1 /\ NumOut >= 1 /\
        (Len(ArgInputBuf) # NumIn \/ Len(ArgOutputBuf) # NumOut)) =>
        last.ret = FALSE /\ last.events = <<>>

\* C5: on an engine built from a model with at least one input and one output,
\* an infer_b call that passes the gates issues one host-to-device copy per
\* input binding, then one executeV2 on the binding table, then one
\* device-to-host copy per output binding, and returns true.
C5_CopyExecuteCopy ==
    (last.op = "infer_b" /\ NumIn >= 1 /\ NumOut >= 1 /\ last.note = "ran") =>
        /\ last.ret = TRUE
        /\ Len(last.events) = NumIn + 1 + NumOut
        /\ EventsOf("cudaMemcpyHostToDevice") = 1..NumIn
        /\ EventsOf("executeV2") = {NumIn + 1}
        /\ EventsOf("cudaMemcpyDeviceToHost") = (NumIn + 2)..(NumIn + 1 + NumOut)
        /\ \A k \in EventsOf("executeV2") : last.events[k][2] = trt.bindings_

\* C10: on an engine built from a valid model with N >= 1 inputs and M >= 1
\* outputs, get_input_shapes() is the N input bindings' dimensions and
\* get_output_shapes() the M output bindings' dimensions, each in binding
\* order.
C10_ShapesInBindingOrder ==
    (JustBuilt /\ NumIn >= 1 /\ NumOut >= 1) =>
        /\ get_input_shapes(trt) = [i \in 1..NumIn |-> ModelInputs[i].dims]
        /\ get_output_shapes(trt) = [i \in 1..NumOut |-> ModelOutputs[i].dims]

\* An engine was just built from a model whose first and third bindings are
\* inputs of different shapes, one of them of two dimensions, around an output.
C10_Witness ==
    /\ JustBuilt
    /\ Len(model) = 3
    /\ model[1].is_input /\ ~model[2].is_input /\ model[3].is_input
    /\ model[1].dims # model[3].dims
    /\ Len(model[3].dims) = 2
    /\ Len(get_input_shapes(trt)) = 2

\* C11: after construction on a model with N inputs and M outputs,
\* get_num_inputs() is N, get_num_outputs() is M, and for every element width
\* w get_input_size_bytes(w) has N entries, entry i the element count of input
\* i times w, and get_output_size_bytes(w) likewise M entries for the outputs.
C11_CountsAndSizes ==
    JustBuilt =>
        /\ get_num_inputs(trt) = NumIn
        /\ get_num_outputs(trt) = NumOut
        /\ \A w \in Widths :
               /\ get_input_size_bytes(trt, w) =
                      [i \in 1..NumIn |-> Product(ModelInputs[i].dims) * w]
               /\ get_output_size_bytes(trt, w) =
                      [i \in 1..NumOut |-> Product(ModelOutputs[i].dims) * w]

\* The arguments of the last decoder call: the detection count, the first
\* three detections, the detection of every later slot, and the caller's
\* vector as it was before the call.
ArgNumDets == last.args[1]
ArgPrefix == last.args[2]
ArgFill == last.args[3]
ArgBefore == last.args[4]

\* The score (in hundredths) of detection i of the last decoder call.
ArgScore(i) == DetAt(ArgPrefix, ArgFill, i).score

\* The last decoder call passed the range test on its detection count.
Decoded == last.op = "decode" /\ ArgNumDets \in 0..MAX_DETECTIONS

\* The records the last decoder call appended to the caller's vector.
Produced ==
    SubSeq(results_detections, Len(ArgBefore) + 1, Len(results_detections))

\* The detection indices below n whose score is at least min, in increasing
\* order.
IndicesFrom(i, n, min) ==
    SelectSeq([j \in 1..(IF n > i THEN n - i ELSE 0) |-> i + j - 1],
              LAMBDA d : ArgScore(d) >= min)

\* C12: decoding produces a record for detection i < count exactly when
\* scores[i] >= 0.25, in increasing index order; a count of 0 gives no record
\* and no error.
C12_ThresholdFilter ==
    Decoded =>
        LET kept == IndicesFrom(0, ArgNumDets, 25) IN
        /\ Len(Produced) = Len(kept)
        /\ \A k \in 1..Len(kept) : Produced[k].confidence = ArgScore(kept[k])
        /\ ArgNumDets = 0 => (Produced = <<>> /\ last.ret # -1)

\* C13: a detection count outside [0, 100] makes the call fail with -1; the
\* count is not clamped and no record is appended.
C13_CountOutOfRange ==
    (last.op = "decode" /\ ArgNumDets \notin 0..MAX_DETECTIONS) =>
        /\ last.ret = -1
        /\ results_detections = ArgBefore

\* A call with a count of 101 over slots that all hold a detection of score
\* 0.9 failed, on a caller's vector that held a record.
C13_Witness ==
    /\ last.op = "decode"
    /\ ArgNumDets = MAX_DETECTIONS + 1
    /\ \A i \in 0..3 : ArgScore(i) = 90
    /\ ArgBefore # <<>>
    /\ last.ret = -1

\* The number of detections below the count whose score is v, and the number
\* of produced records whose confidence is v.
DetsOfScore(v) == Cardinality({i \in 0..(ArgNumDets - 1) : ArgScore(i) = v})
ProducedOfScore(v) ==
    Cardinality({k \in 1..Len(Produced) : Produced[k].confidence = v})

\* C14: a detection whose score is exactly 0.25 is kept, and a detection is
\* rejected only if its score is below 0.25: every detection of score 0.25 or
\* more has its record.
C14_BoundaryKept ==
    Decoded =>
        \A v \in Scores : v >= 25 => ProducedOfScore(v) = DetsOfScore(v)

\* A call kept a detection of score exactly 0.25 and rejected another one.
C14_Witness ==
    /\ Decoded
    /\ ArgNumDets = 2
    /\ ArgScore(0) = 25
    /\ Len(Produced) = 1
    /\ Produced[1].confidence = 25

\* The record the detection in slot i of the last decoder call stands for.
RecordOf(i) ==
    LET d == DetAt(ArgPrefix, ArgFill, i) IN
    [rect |-> [x |-> d.box[1], y |-> d.box[2],
               width |-> d.box[3] - d.box[1], height |-> d.box[4] - d.box[2]],
     confidence |-> d.score, class_id |-> d.label]

\* recs is RecordOf of the detections below n whose score is at least min,
\* in increasing index order.
RecordsFrom(recs, n, min) ==
    LET of == IndicesFrom(0, n, min) IN
    recs = [k \in 1..Len(of) |-> RecordOf(of[k])]

\* C15: every record produced for detection i has rect.x = x1, rect.y = y1,
\* rect.width = x2 - x1, rect.height = y2 - y1, confidence = scores[i] and
\* class_id = labels[i], and the records are in detection-index order: the
\* produced records are those of the detections from some score on, each as
\* described, in index order.
C15_RecordFields ==
    Decoded => \E min \in Scores \cup {100} : RecordsFrom(Produced, ArgNumDets, min)

\* A call produced the records of two detections of different boxes and
\* labels, the second one first in the tensors.
C15_Witness ==
    /\ Decoded
    /\ ArgNumDets = 3
    /\ Len(Produced) = 2
    /\ Produced[1].class_id = 7 /\ Produced[1].rect.width = 3
    /\ Produced[2].class_id = 0 /\ Produced[2].rect.width = 3
    /\ Produced[2].rect.x = 1 /\ Produced[2].rect.height = 6

\* C16: a call that does not fail returns the number of records it produced,
\* which is the number it appended to the caller's vector, whatever the
\* vector held before.
C16_ReturnsCount ==
    (last.op = "decode" /\ last.ret # -1) =>
        /\ results_detections = ArgBefore \o Produced
        /\ last.ret = Len(Produced)

\* C17: unload_model called when no model is loaded (before any load_model,
\* or a second time) is a safe no-op: it reads no element past the end of a
\* vector, frees nothing that is not live, and leaves the wrapper unloaded.
C17_UnloadIdempotent ==
    (last.op = "unload_model" /\ ~last.args[1]) =>
        /\ ~crashed
        /\ last.note # "read past the end of a data vector"
        /\ \A k \in EventsOf("free") : last.events[k][3]
        /\ ~initialized /\ ~engine
        /\ input_data = <<>> /\ output_data = <<>>
        /\ input_sizes = <<>> /\ output_sizes = <<>>
        /\ host_mem = {}

\* The last operation was one of the two asynchronous calls.
AsyncCall == last.op \in {"infer_async", "retrieve_infer_result_async"}

\* C18: in every state and for every argument infer_async returns false and
\* retrieve_infer_result_async returns 0; neither makes a CUDA or TensorRT
\* call, and neither changes the engine or device memory.
C18_AsyncStubs ==
    /\ [](AsyncCall =>
            /\ last.events = <<>>
            /\ last.op = "infer_async" => last.ret = FALSE
            /\ last.op = "retrieve_infer_result_async" => last.ret = 0)
    /\ [][(last.op = "none" /\ AsyncCall') =>
            (trt' = trt /\ dev_mem' = dev_mem /\ model' = model)]_vars

\* infer_async was called with a buffer and its size on a built engine whose
\* model has an input and an output, and returned false.
C18_Witness ==
    /\ last.op = "infer_async"
    /\ last.ret = FALSE
    /\ Len(last.args[1]) = 1 /\ last.args[1][1] # NULL
    /\ last.args[2] = <<ElemWidth>>
    /\ trt.live /\ NumIn >= 1 /\ NumOut >= 1

\* Some host pointer of the last infer_b call is null.
SomeNullPointer ==
    \/ \E i \in 1..Len(ArgInputBuf) : ArgInputBuf[i] = NULL
    \/ \E i \in 1..Len(ArgOutputBuf) : ArgOutputBuf[i] = NULL

\* C20: an infer_b call in which some host input or output pointer is null
\* returns false and performs no cudaMemcpy and no executeV2.
C20_NullRejected ==
    (last.op = "infer_b" /\ SomeNullPointer) =>
        /\ last.ret = FALSE
        /\ EventsOf("cudaMemcpyHostToDevice") = {}
        /\ EventsOf("cudaMemcpyDeviceToHost") = {}
        /\ EventsOf("executeV2") = {}

\* An infer_b call on an engine built from a model with an input and an
\* output passed a null output pointer next to a good input pointer, with
\* sizes that pass the first test, and returned false.
C20_Witness ==
    /\ last.op = "infer_b"
    /\ NumIn >= 1 /\ NumOut >= 1
    /\ ArgInputBuf = <<1>> /\ ArgOutputBuf = <<NULL>>
    /\ last.note = "count mismatch"
    /\ last.ret = FALSE

\* The engine file the last constructor or load_model call was given.
ArgFile == last.args[1]

\* The last operation ran the constructor on a readable engine file: by
\* itself, or inside a load_model that got as far as constructing.
RanConstructor ==
    /\ last.op \in {"TrtInferenceEngine", "load_model"}
    /\ last.note # "already initialized"
    /\ ArgFile.readable

\* Some binding of model m has no dimensions, or a dimension <= 0.
HasBadBinding(m) ==
    \E i \in 1..Len(m) :
        \/ Len(m[i].dims) = 0
        \/ \E j \in 1..Len(m[i].dims) : m[i].dims[j] <= 0

\* C21: constructing on a model that has a binding with no dimensions or with
\* a dimension <= 0 throws: no object results and no device buffer is
\* allocated.
C21_BadDimsRejected ==
    (RanConstructor /\ HasBadBinding(ArgFile.bindings)) =>
        /\ last.ret = "threw"
        /\ ~trt.live
        /\ EventsOf("cudaMalloc") = {}
        /\ dev_mem = <<>>

\* The last operation tore an engine down: the destructor ran, by itself or
\* through unload_model's engine.reset() on a non-null engine.
Teardown ==
    \/ last.op = "~TrtInferenceEngine"
    \/ last.op = "unload_model" /\ last.args[2]

\* C23: on teardown every cudaFree comes before every release of a runtime
\* resource, no device buffer is left, and the runtime resources are released
\* in the order execution context, engine, runtime.
C23_TeardownOrder ==
    Teardown =>
        /\ \A f \in EventsOf("cudaFree") : \A r \in EventsOf("reset") : f < r
        /\ dev_mem = <<>>
        /\ SelectSeq(last.events, LAMBDA ev : ev[1] = "reset") =
               << <<"reset", "context_">>, <<"reset", "engine_">>,
                  <<"reset", "runtime_">> >>

\* A client destroyed its engine, and the three resources were released.
C23_Witness ==
    /\ last.op = "~TrtInferenceEngine"
    /\ Cardinality(EventsOf("reset")) = 3
    /\ ~trt.live

\* The last operation was an inference or introspection call on the engine.
EngineCall ==
    last.op \in {"infer_b", "infer_async", "retrieve_infer_result_async", "get"}

\* C25: no infer_b, infer_async, retrieve_infer_result_async or getter call
\* changes input_cuda_buffers_, output_cuda_buffers_ or bindings_, or
\* allocates or frees device memory, whether it succeeds or fails.
C25_BuffersFrame ==
    [][(last.op = "none" /\ EngineCall') =>
          /\ trt'.input_cuda_buffers_ = trt.input_cuda_buffers_
          /\ trt'.output_cuda_buffers_ = trt.output_cuda_buffers_
          /\ trt'.bindings_ = trt.bindings_
          /\ dev_mem' = dev_mem]_vars

\* An infer_b call succeeded on a live engine.
C25_Witness ==
    /\ last.op = "infer_b"
    /\ last.ret = TRUE
    /\ trt.live

\* C26: load_model called while a model is loaded returns -1, constructs no
\* engine and leaves the engine, the host buffers, the size vectors and
\* initialized unchanged; an engine is constructed only when none exists.
C26_LoadWhileLoaded ==
    [][/\ (last.op = "none" /\ (initialized \/ engine) /\ last'.op = "load_model") =>
              /\ last'.ret = "-1"
              /\ last'.events = <<>>
              /\ UNCHANGED <<trt, model, dev_mem, initialized, engine, input_sizes,
                             output_sizes, input_data, output_data, host_mem>>
       /\ (last.op = "none" /\ JustBuilt') => ~trt.live]_vars

\* load_model was called on a loaded model and returned -1.
C26_Witness ==
    /\ last.op = "load_model"
    /\ last.ret = "-1"
    /\ last.note = "already initialized"
    /\ initialized /\ engine /\ trt.live
    /\ Len(input_data) = MODEL_NUM_INPUTS /\ Len(output_data) = MODEL_NUM_OUTPUTS

\* C27: constructing on a well-formed model in which some binding has no name
\* succeeds: the constructor neither throws nor faults, and every binding is
\* in the catalog with its shape and element count.
C27_NullNameAccepted ==
    (RanConstructor /\ HasNullName(ArgFile) /\ ~HasBadBinding(ArgFile.bindings)) =>
        /\ last.note # "std::string from a null name"
        /\ trt.live
        /\ Len(trt.input_shapes_) + Len(trt.output_shapes_) = Len(ArgFile.bindings)
        /\ Len(trt.trt_input_element_counts_) + Len(trt.trt_output_element_counts_)
               = Len(ArgFile.bindings)

\* C29: load_model, identify_objects and unload_model never index
\* input_sizes, output_sizes, input_data or output_data past the vector's
\* length, whatever the numbers of inputs and outputs of the model.
C29_IndexInRange ==
    last.op \in {"load_model", "identify_objects", "unload_model"} =>
        last.note \notin {"read past the end of a size vector",
                          "read past the end of a data vector"}

\* input_data and output_data hold MODEL_NUM_INPUTS and MODEL_NUM_OUTPUTS
\* host buffers that are allocated and not freed.
HostBuffersLive ==
    /\ Len(input_data) = MODEL_NUM_INPUTS
    /\ Len(output_data) = MODEL_NUM_OUTPUTS
    /\ \A i \in 1..Len(input_data) : input_data[i] \in host_mem
    /\ \A i \in 1..Len(output_data) : output_data[i] \in host_mem

\* C30: between calls, initialized holds exactly when engine is non-null and
\* exactly when the host buffers are live; an unload_model of a loaded model
\* frees each host buffer once and leaves none.
C30_SessionInvariant ==
    /\ Idle => /\ initialized <=> engine
               /\ initialized <=> HostBuffersLive
    /\ (last.op = "unload_model" /\ last.args[1] /\ ~crashed) =>
           /\ \A k \in EventsOf("free") : last.events[k][3]
           /\ host_mem = {}

====
